---- MODULE Spec2Model ----
(***************************************************************************)
(* Credential management core of the car-pricing backend: the in-memory   *)
(* user store of src/users/auth.service.spec.ts (find / create), the      *)
(* AuthService that runs against it (signup / signin), and the response   *)
(* shaping of src/interceptors/serialize.interceptor.ts.                  *)
(*                                                                         *)
(* Strings that are hashed, split or compared are sequences of one-       *)
(* character strings.  E-mail addresses are only ever compared for        *)
(* equality and stay atomic strings.                                      *)
(***************************************************************************)
EXTENDS Integers, Sequences, FiniteSets, TLC

\* ------------------------------------------------------------------ bounds

\* Largest number of records the store holds in the model.
MaxUsers == 2

\* Longest collection handed to the serializer in the model.
MaxItems == 2

\* Requests that may be in flight at the same time.
Procs == {"r1", "r2"}

Emails == {"a@x.com", "b@x.com"}

\* Plaintext passwords a caller signs up with; one holds the separator.
Passwords == {<<"p", "w">>, <<"p", ".", "w">>}

\* The random source is sampled at these seeds: seeded b, it yields the
\* bytes b, b+37, b+74, ... (mod 256), in the order they are asked for.
RandomSeeds == {58, 197}

\* ------------------------------------------------------- program constants

\* crypto.randomBytes(8)
SaltBytes == 8

\* pbkdf2Sync(password, salt, 1000, 32, 'sha256')
Iterations == 1000

KeyLen == 32

\* ----------------------------------------------------------------- strings

HexDigits ==
    <<"0", "1", "2", "3", "4", "5", "6", "7", "8", "9", "a", "b", "c", "d", "e", "f">>

\* ASCII "." to "9" is 46..57, "a" to "z" is 97..122.
Punct == <<".", "/", "0", "1", "2", "3", "4", "5", "6", "7", "8", "9">>

Lower ==
    <<"a", "b", "c", "d", "e", "f", "g", "h", "i", "j", "k", "l", "m",
      "n", "o", "p", "q", "r", "s", "t", "u", "v", "w", "x", "y", "z">>

IndexOf(seq, c) == CHOOSE i \in 1..Len(seq) : seq[i] = c

\* The byte a character is encoded as (UTF-8 of an ASCII character).
CharCode(c) ==
    IF \E i \in 1..Len(Punct) : Punct[i] = c
    THEN 45 + IndexOf(Punct, c)
    ELSE 96 + IndexOf(Lower, c)

\* Buffer.toString('hex'): two lower-case hex digits per byte.
toStringHex(bytes) ==
    [i \in 1..(2 * Len(bytes)) |->
        IF i % 2 = 1
        THEN HexDigits[(bytes[(i + 1) \div 2] \div 16) + 1]
        ELSE HexDigits[(bytes[i \div 2] % 16) + 1]]

\* crypto.randomBytes(n), called when the source seeded `seed` has already
\* yielded `drawn` bytes: its next n bytes.
randomBytes(seed, drawn, n) == [i \in 1..n |-> (seed + 37 * (drawn + i - 1)) % 256]

\* Absorbing the characters lo..hi of a string into an accumulator h gives
\* (h * mul + add) % 32749; the pair is built by halving the range.
RECURSIVE Affine(_, _, _)
Affine(str, lo, hi) ==
    IF lo = hi
    THEN [mul |-> 31, add |-> CharCode(str[lo])]
    ELSE LET mid   == (lo + hi) \div 2
             left  == Affine(str, lo, mid)
             right == Affine(str, mid + 1, hi)
         IN  [mul |-> (left.mul * right.mul) % 32749,
              add |-> (left.add * right.mul + right.add) % 32749]

\* Absorb the bytes of a string, first to last, into a 15-bit accumulator:
\* h := (h * 31 + byte) % 32749 for each byte.
Absorb(str, h) ==
    IF str = <<>> THEN h
    ELSE LET a == Affine(str, 1, Len(str)) IN (h * a.mul + a.add) % 32749

\* crypto.pbkdf2Sync(password, salt, iterations, keylen, 'sha256'): a
\* deterministic function of its arguments that yields keylen bytes.  The
\* pseudo-random function is modelled by a small mixing function keyed on
\* the password, the salt and the iteration count; like the real one it is
\* many-to-one, and unlike the real one its collisions can be found.
pbkdf2Sync(password, salt, iterations, keylen) ==
    LET seed == Absorb(salt, Absorb(password, iterations % 32749))
    IN  [i \in 1..keylen |->
            (seed * (i + 1) + (seed \div 256) * i + 17 * i * i) % 256]

\* String.prototype.split('.'): the pieces between the separators.
RECURSIVE split(_)
split(str) ==
    LET dots == {i \in 1..Len(str) : str[i] = "."}
    IN  IF dots = {}
        THEN <<str>>
        ELSE LET k == CHOOSE i \in dots : \A j \in dots : i <= j
             IN  <<SubSeq(str, 1, k - 1)>> \o split(SubSeq(str, k + 1, Len(str)))

\* `${salt}.${hash}`
SaltDotHash(salt, hash) == salt \o <<".">> \o hash

\* pbkdf2Sync(password, salt, 1000, 32, 'sha256').toString('hex')
digest(password, salt) ==
    toStringHex(pbkdf2Sync(password, salt, Iterations, KeyLen))

\* A signup draws twice from the random source: signup's own salt first,
\* then the salt create draws.
SignupSalts == {toStringHex(randomBytes(seed, 0, SaltBytes)) : seed \in RandomSeeds}

StoreSalts ==
    {toStringHex(randomBytes(seed, SaltBytes, SaltBytes)) : seed \in RandomSeeds}

\* What a caller may type as a password at signin: the plaintext passwords
\* and the credential strings signup derives from them.
PlainInputs ==
    Passwords \cup
    {SaltDotHash(salt, digest(pw, salt)) : pw \in Passwords, salt \in SignupSalts}

\* The digests of the inputs above, computed once.
DigestTable ==
    {<<pw, salt, digest(pw, salt)>> :
        pw \in PlainInputs, salt \in SignupSalts \cup StoreSalts}

hexDigest(password, salt) ==
    IF \E t \in DigestTable : t[1] = password /\ t[2] = salt
    THEN (CHOOSE t \in DigestTable : t[1] = password /\ t[2] = salt)[3]
    ELSE digest(password, salt)

\* ------------------------------------------------------------ the user store

VARIABLES users, pending, last, response

vars == <<users, pending, last, response>>

\* find with the comparison inverted: the records of every other identifier.
findOthers(store, email) ==
    LET other(user) == user.email # email
    IN  SelectSeq(store, other)

\* find without its filter: the whole store.
findAll(store, email) == store

\* find that stops at the first match.
findFirst(store, email) ==
    LET match(user) == user.email = email
        found == SelectSeq(store, match)
    IN  IF found = <<>> THEN <<>> ELSE <<found[1]>>

\* fakeUsersService.find: the records whose email is the one asked for,
\* in insertion order.
find(store, email) ==
    LET match(user) == user.email = email
    IN  SelectSeq(store, match)

\* create that stores the string it is handed behind its salt, unhashed.
createdUserUnhashed(email, password, salt) ==
    [email |-> email, password |-> SaltDotHash(salt, password)]

\* The record fakeUsersService.create builds from its arguments and from
\* the salt it draws: it salts and hashes the password it is handed.
createdUser(email, password, salt) ==
    [email    |-> email,
     password |-> SaltDotHash(salt, hexDigest(password, salt))]

\* create that never pushes the record.
pushNothing(store, user) == store

\* create that overwrites the store with the new record.
pushOverwrite(store, user) == <<user>>

\* users.push(user)
push(store, user) == Append(store, user)

\* ------------------------------------------------------------- AuthService

\* The credential string signup derives from a plaintext password and a
\* fresh salt: salt, separator, hex digest.
hashPassword(password, salt) == SaltDotHash(salt, hexDigest(password, salt))

NoUser == [email |-> "", password |-> <<>>]

Idle == [pc |-> "idle", email |-> "", password |-> <<>>, found |-> 0,
         hadAccount |-> FALSE]

\* Does the store hold a record with this identifier?
HasAccount(store, email) == \E i \in 1..Len(store) : store[i].email = email

\* signin(email, password): the outcome and the account returned.
\*   no match            -> NotFoundException
\*   more than one match -> BadRequestException
\*   digest mismatch     -> BadRequestException
\*   otherwise           -> the matched account
signin(store, email, password) ==
    LET found == find(store, email)
    IN  IF Len(found) = 0
        THEN [outcome |-> "NotFoundException", user |-> NoUser]
        ELSE IF Len(found) > 1
        THEN [outcome |-> "BadRequestException", user |-> NoUser]
        ELSE LET user       == found[1]
                 parts      == split(user.password)
                 salt       == parts[1]
                 storedHash == parts[2]
                 hash       == hexDigest(password, salt)
             IN  IF storedHash # hash
                 THEN [outcome |-> "BadRequestException", user |-> NoUser]
                 ELSE [outcome |-> "ok", user |-> user]

\* ------------------------------------------------------- response shaping

\* The columns of the User entity a response may carry.
FieldNames == {"id", "email", "password", "admin"}

SampleUsers ==
    {[id |-> "1", email |-> "a@x.com", password |-> "3a5f.9c01", admin |-> "true"],
     [id |-> "2", email |-> "b@x.com", password |-> "c5ea.77d2", admin |-> "false"]}

Restrict(obj, fields) == [f \in fields \cap DOMAIN obj |-> obj[f]]

\* Objects a handler may return: whole users, partial ones, the empty one.
PayloadObjects ==
    {Restrict(u, fields) :
        u \in SampleUsers, fields \in {FieldNames, {"email", "password"}, {}}}

PayloadLists ==
    UNION {[1..n -> PayloadObjects] : n \in 0..MaxItems}

\* plainToClass without excludeExtraneousValues: every property is copied.
transformAll(dto, obj) == obj

\* plainToClass of one object with excludeExtraneousValues: true: the
\* result has exactly the properties the dto exposes, each with the source
\* object's value, or undefined where the source has none.
transform(dto, obj) ==
    [f \in dto |-> IF f \in DOMAIN obj THEN obj[f] ELSE "undefined"]

\* plainToClass(this.dto, data, { excludeExtraneousValues: true }): an
\* array is transformed element by element, anything else as one object.
\* A single object is carried as a one-element sequence of kind "object".
plainToClass(dto, kind, data) ==
    IF kind = "array"
    THEN [i \in 1..Len(data) |-> transform(dto, data[i])]
    ELSE <<transform(dto, data[1])>>

\* ------------------------------------------------------------------ actions

Init ==
    /\ users = <<>>
    /\ pending = [p \in Procs |-> Idle]
    /\ last = [op |-> "none", email |-> "", outcome |-> "none", user |-> NoUser]
    /\ response = [dto |-> {}, kind |-> "none", data |-> <<>>, out |-> <<>>]

\* signup, up to its first await: the lookup runs against the store as it
\* is when the request arrives, and the request is suspended on the result.
\* hadAccount records, for the properties only, whether the identifier had
\* an account at that moment.
SignupFind(p, email, password) ==
    /\ pending[p].pc = "idle"
    /\ pending' = [pending EXCEPT ![p] =
                      [pc |-> "found", email |-> email, password |-> password,
                       found |-> Len(find(users, email)),
                       hadAccount |-> HasAccount(users, email)]]
    /\ UNCHANGED <<users, last, response>>

\* signup resumed with a non-empty lookup result: it throws.
SignupThrow(p) ==
    /\ pending[p].pc = "found"
    /\ pending[p].found > 0
    /\ pending' = [pending EXCEPT ![p] = Idle]
    /\ last' = [op |-> "signup", email |-> pending[p].email,
                outcome |-> "BadRequestException", user |-> NoUser]
    /\ UNCHANGED <<users, response>>

\* signup resumed with an empty lookup result: it salts and hashes the
\* password and hands the credential string to create, which appends the
\* record it builds to the store.
SignupCreate(p) ==
    /\ pending[p].pc = "found"
    /\ pending[p].found = 0
    /\ Len(users) < MaxUsers
    /\ \E seed \in RandomSeeds :
          LET salt      == toStringHex(randomBytes(seed, 0, SaltBytes))
              result    == hashPassword(pending[p].password, salt)
              storeSalt == toStringHex(randomBytes(seed, SaltBytes, SaltBytes))
              user      == createdUser(pending[p].email, result, storeSalt)
          IN  /\ users' = push(users, user)
              /\ last' = [op |-> "signup", email |-> pending[p].email,
                          outcome |-> "ok", user |-> user]
    /\ pending' = [pending EXCEPT ![p] = Idle]
    /\ UNCHANGED response

\* signin: the lookup runs when the request arrives and everything after
\* it reads only the lookup's result, so the request is one step.
Signin(email, password) ==
    LET r == signin(users, email, password)
    IN  /\ last' = [op |-> "signin", email |-> email,
                    outcome |-> r.outcome, user |-> r.user]
        /\ UNCHANGED <<users, pending, response>>

Next ==
    \/ \E p \in Procs, email \in Emails, password \in Passwords :
          SignupFind(p, email, password)
    \/ \E p \in Procs : SignupThrow(p)
    \/ \E p \in Procs : SignupCreate(p)
    \/ \E email \in Emails, password \in PlainInputs : Signin(email, password)

Spec == Init /\ [][Next]_vars

\* SerializeInterceptor.intercept: what the handler emits is mapped through
\* plainToClass with the interceptor's dto.
intercept(dto, kind, data) ==
    /\ response' = [dto |-> dto, kind |-> kind, data |-> data,
                    out |-> plainToClass(dto, kind, data)]
    /\ UNCHANGED <<users, pending, last>>

InterceptObject ==
    \E dto \in SUBSET FieldNames, obj \in PayloadObjects :
        intercept(dto, "object", <<obj>>)

InterceptArray ==
    \E dto \in SUBSET FieldNames, data \in PayloadLists :
        intercept(dto, "array", data)

NextSerialize == InterceptObject \/ InterceptArray

SerializeSpec == Init /\ [][NextSerialize]_vars

\* --------------------------------------------------------------- properties

\* The records of the store that carry this identifier.
Matches(store, email) == {i \in 1..Len(store) : store[i].email = email}

\* Does this plaintext verify against this stored credential: is the digest
\* recomputed from the stored salt the stored digest?
Verifies(password, credential) ==
    LET parts == split(credential)
    IN  hexDigest(password, parts[1]) = parts[2]

\* The step in which request p, suspended on its lookup, completes.
Completes(p) == pending[p].pc = "found" /\ pending'[p].pc = "idle"

\* The plaintext password of the model that holds the separator.
DottedPassword == <<"p", ".", "w">>

\* C1: a signup whose identifier had an account when the request arrived
\* fails with BadRequestException (the duplicate-identifier error), and the
\* step creates no record and leaves every existing record as it was.
C1_DuplicateSignupRejected ==
    [][\A p \in Procs :
          (Completes(p) /\ pending[p].hadAccount)
          => /\ last'.op = "signup"
             /\ last'.email = pending[p].email
             /\ last'.outcome = "BadRequestException"
             /\ users' = users]_vars

C1_Witness ==
    /\ last.op = "signup"
    /\ last.outcome = "BadRequestException"
    /\ HasAccount(users, last.email)

\* C2: right after a successful signup(identifier, password), signin with
\* the same identifier and plaintext succeeds and returns an account with
\* that identifier.
C2_SigninAfterSignup ==
    [][\A p \in Procs :
          (Completes(p) /\ last'.op = "signup" /\ last'.outcome = "ok")
          => LET r == signin(users', pending[p].email, pending[p].password)
             IN  r.outcome = "ok" /\ r.user.email = pending[p].email]_vars

\* C3: for a registered identifier, signin with a plaintext that verifies
\* against none of the identifier's stored credentials fails with
\* BadRequestException (the invalid-credentials error) and returns no account.
C3_WrongPasswordRejected ==
    \A email \in Emails, password \in PlainInputs :
        (/\ HasAccount(users, email)
         /\ \A i \in Matches(users, email) :
               ~Verifies(password, users[i].password))
        => signin(users, email, password) =
              [outcome |-> "BadRequestException", user |-> NoUser]

C3_Witness ==
    /\ last.op = "signin"
    /\ last.outcome = "BadRequestException"
    /\ Cardinality(Matches(users, last.email)) = 1
    /\ \E password \in PlainInputs, i \in Matches(users, last.email) :
          Verifies(password, users[i].password)

\* C4: for an identifier with no account, signin fails with
\* NotFoundException whatever the password and whatever else is stored.
C4_UnknownIdentifierNotFound ==
    \A email \in Emails, password \in PlainInputs :
        ~HasAccount(users, email)
        => signin(users, email, password) =
              [outcome |-> "NotFoundException", user |-> NoUser]

C4_Witness ==
    /\ last.op = "signin"
    /\ last.outcome = "NotFoundException"
    /\ ~HasAccount(users, last.email)
    /\ Len(users) >= 1

\* C5: in every reachable state no two records of the store share an
\* identifier.
C5_UniqueIdentifiers ==
    \A i, j \in 1..Len(users) : i # j => users[i].email # users[j].email

\* C6: a signup whose identifier had no account when the request arrived
\* succeeds, appends exactly one record to the store, the record it returns,
\* and that record's credential string is not the plaintext password.
C6_FreshSignupCreatesHashedRecord ==
    [][\A p \in Procs :
          (Completes(p) /\ ~pending[p].hadAccount)
          => /\ last'.op = "signup"
             /\ last'.outcome = "ok"
             /\ Len(users') = Len(users) + 1
             /\ SubSeq(users', 1, Len(users)) = users
             /\ users'[Len(users')] = last'.user
             /\ last'.user.email = pending[p].email
             /\ last'.user.password # pending[p].password]_vars

C6_Witness ==
    /\ last.op = "signup"
    /\ last.outcome = "ok"
    /\ Len(users) >= 1
    /\ users[Len(users)] = last.user

\* C7: every stored credential string holds exactly one separator, with a
\* non-empty salt before it and a non-empty digest after it.
C7_CredentialShape ==
    \A i \in 1..Len(users) :
        LET credential == users[i].password
            parts      == split(credential)
        IN  /\ Cardinality({k \in 1..Len(credential) : credential[k] = "."}) = 1
            /\ Len(parts) = 2
            /\ parts[1] # <<>>
            /\ parts[2] # <<>>

\* A record is stored that was signed up with the password holding ".".
C7_Witness ==
    /\ last.op = "signup"
    /\ last.outcome = "ok"
    /\ \E i \in 1..Len(users), seed \in RandomSeeds :
          users[i] = createdUser(
              last.email,
              hashPassword(DottedPassword,
                           toStringHex(randomBytes(seed, 0, SaltBytes))),
              toStringHex(randomBytes(seed, SaltBytes, SaltBytes)))

\* C8: the shaped payload has as many elements as the payload, in the same
\* order, and each element carries only properties the dto lists, with the
\* source element's values; no unlisted property of a source element
\* (the credential, say) is in the output.
C8_OnlyListedFields ==
    response.kind # "none"
    => /\ Len(response.out) = Len(response.data)
       /\ \A i \in 1..Len(response.data) :
             /\ DOMAIN response.out[i] \subseteq response.dto
             /\ \A f \in DOMAIN response.data[i] :
                   IF f \in response.dto
                   THEN /\ f \in DOMAIN response.out[i]
                        /\ response.out[i][f] = response.data[i][f]
                   ELSE f \notin DOMAIN response.out[i]

C8_Witness ==
    /\ response.kind = "array"
    /\ Len(response.data) = 2
    /\ response.dto = {"id", "email"}
    /\ "password" \in DOMAIN response.data[1]
    /\ "password" \in DOMAIN response.data[2]
    /\ response.data[1].email # response.data[2].email
    /\ response.out[1].email = response.data[1].email
    /\ response.out[2].email = response.data[2].email

\* C9: when more than one record carries the identifier, signin fails with
\* BadRequestException and returns no account, whatever the password, also
\* one that verifies against one of the records.
C9_AmbiguousIdentifierRejected ==
    \A email \in Emails, password \in PlainInputs :
        Cardinality(Matches(users, email)) > 1
        => signin(users, email, password) =
              [outcome |-> "BadRequestException", user |-> NoUser]

C9_Witness ==
    /\ last.op = "signin"
    /\ last.outcome = "BadRequestException"
    /\ Cardinality(Matches(users, last.email)) > 1
    /\ \E password \in PlainInputs, i \in Matches(users, last.email) :
          Verifies(password, users[i].password)

\* C10: the store changes only in the step of a successful signup, which
\* appends one record and leaves the others as they were; every other step,
\* each outcome of signin among them, leaves the store as it was.
C10_StoreOnlyGrowsBySignup ==
    [][/\ users' # users
          => /\ last'.op = "signup"
             /\ last'.outcome = "ok"
             /\ Len(users') = Len(users) + 1
             /\ SubSeq(users', 1, Len(users)) = users
       /\ (last'.op = "signin" /\ last' # last) => users' = users]_vars

C10_Witness ==
    /\ last.op = "signin"
    /\ last.outcome = "ok"
    /\ Len(users) = MaxUsers
    /\ last.user \in {users[i] : i \in 1..Len(users)}

====
